---- MODULE Spec2Model ----
(***************************************************************************)
(* State-machine model of the client-side security services:              *)
(*   - the rate limiter (src/services/rateLimiter.ts),                    *)
(*   - the security monitor (src/services/securityMonitor.ts, kept in     *)
(*     src/src/test/test-utils.tsx),                                      *)
(*   - the CSP violation reporter (src/services/monitoring.ts),           *)
(*   - validateCodeSafety and escapeHtml of src/utils/codeSanitizer.ts    *)
(*     (kept in src/src/utils/codeSanitizer.test.ts),                     *)
(*   - the chat hook useBmadChat (src/src/hooks/useBmadChat.ts),          *)
(*   - the image upload of the visual builder (src/unnamed/part_004).     *)
(*                                                                         *)
(* Time is Date.now() in milliseconds.  A JavaScript Map is a function    *)
(* whose DOMAIN is the set of keys present; an optional property of an    *)
(* object is a record field that is present or absent; an optional        *)
(* argument is <<>> when omitted and <<v>> when given.                    *)
(***************************************************************************)
EXTENDS Integers, Sequences, FiniteSets, TLC

\* ---------------------------------------------------------------- bounds
\* latest clock value explored by the fresh-instance specification
MaxNow == 3
\* isAllowed calls explored per key between two creations of its entry
MaxCalls == 4
\* security events logged in one behaviour
MaxLogged == 2
\* attempt() calls started in one behaviour
MaxAttempts == 2
\* latest clock value explored by the specification with fairness
MaxNowLive == 5
\* security events logged in one behaviour of that specification
MaxLoggedLive == 1
\* logEvent calls made on the monitor in one behaviour
MaxLogCalls == 3
\* subscribe calls made on the monitor in one behaviour
MaxSubs == 3
\* securitypolicyviolation listeners added to the document
MaxHandlers == 3
\* fragments an input string of the sanitizer functions is made of
MaxParts == 2

\* action names, identifiers and configuration values the calls draw from
ActionNames == {"a", "b"}
\* the action names configure() is called for
ConfiguredNames == {"a"}
Identifiers == {"u1"}
MaxRequestsValues == {0, 1, 2}
WindowMsValues == {2}
BlockDurationMsValues == {2}

VARIABLES
  configs,        \* RateLimiterService.configs : action -> RateLimitConfig
  limits,         \* RateLimiterService.limits  : key -> RateLimitEntry
  events,         \* SecurityMonitorService.events, newest first
  nextId,         \* number of ids crypto.randomUUID() has handed out
  now,            \* Date.now()
  secureContext,  \* whether crypto.randomUUID exists in this page context
  attempts,       \* the attempt() calls made so far, in call order
  last,           \* the operation that produced this state, its observation
  hist,           \* history per stored entry: calls and admissions since creation
  admitted,       \* history: times of the admissions of the tracked keys
  listeners,      \* SecurityMonitorService.listeners, in subscription order
  subs,           \* the unsubscribe closures subscribe() has returned so far
  violations,     \* CSPReporterService.violations, newest first
  handlers,       \* securitypolicyviolation listeners added to the document
  endpoint,       \* CSPReporterService.endpoint: <<>> is null
  logged,         \* history: logEvent calls completed, and whether clearEvents ran
  held,           \* the arrays getEvents() has returned, as their callers hold them
  messages,       \* useBmadChat chatState.messages
  isTyping,       \* useBmadChat chatState.isTyping
  activeAgent,    \* useBmadChat chatState.activeAgent, by id
  pending,        \* the sendMessage calls waiting for their timer
  lastUploadTime, \* VisualBuilder lastUploadTime.current
  uploads         \* the handleImageUpload calls made so far, in call order

vars == <<configs, limits, events, nextId, now, secureContext, attempts,
          last, hist, admitted, listeners, subs, violations, handlers,
          endpoint, logged, held, messages, isTyping, activeAgent, pending,
          lastUploadTime, uploads>>

\* the state of the monitor's subscriptions and of the CSP reporter
observers == <<listeners, subs, violations, handlers, endpoint>>

\* the state of the callers of the services: the arrays they hold, the chat
\* hook and the image upload of the visual builder
clients == <<held, messages, isTyping, activeAgent, pending, lastUploadTime,
             uploads>>

\* no array handed out, the hook as useReducer initialises it with
\* agents[0], and lastUploadTime as useRef(0) initialises it
ClientsIdle ==
  /\ held = <<>>
  /\ messages = <<>>
  /\ isTyping = FALSE
  /\ activeAgent = "orchestrator"
  /\ pending = {}
  /\ lastUploadTime = 0
  /\ uploads = <<>>

\* ------------------------------------------------------- JavaScript helpers
\* truthiness of a number
Truthy(n) == n # 0

\* Math.ceil(a / b) for naturals a and b > 0
Ceil(a, b) == (a + b - 1) \div b

\* Map.prototype.set
MapSet(m, k, v) == [x \in DOMAIN m \cup {k} |-> IF x = k THEN v ELSE m[x]]

\* Map.prototype.delete
MapDelete(m, k) == [x \in DOMAIN m \ {k} |-> m[x]]

\* String.prototype.startsWith
StartsWith(s, prefix) ==
  Len(s) >= Len(prefix) /\ SubSeq(s, 1, Len(prefix)) = prefix

\* the empty Map
EmptyMap == [x \in {} |-> 0]

\* ------------------------------------------------------- security monitor
maxEvents == 1000

RATE_LIMIT_EXCEEDED == "RATE_LIMIT_EXCEEDED"
MEDIUM == "MEDIUM"

\* logEvent without the truncation to maxEvents
logEvent_NoTruncate(evs, id, t, type, severity, message, details) ==
  <<[id |-> id, timestamp |-> t, type |-> type, severity |-> severity,
     message |-> message, details |-> details]>> \o evs

\* SecurityMonitorService.logEvent: the buffer after the event is added.
\* userAgent and location are fixed per page and left out of the record.
logEvent(evs, id, t, type, severity, message, details) ==
  LET event == [id |-> id, timestamp |-> t, type |-> type,
                severity |-> severity, message |-> message,
                details |-> details]
      added == <<event>> \o evs
  IN IF Len(added) > maxEvents THEN SubSeq(added, 1, maxEvents) ELSE added

\* SecurityMonitorService.logRateLimitExceeded
logRateLimitExceeded(evs, id, t, details) ==
  logEvent(evs, id, t, RATE_LIMIT_EXCEEDED, MEDIUM,
           "Rate limit exceeded for " \o details.action, details)

\* enum SecurityEventType
SecurityEventType ==
  {"XSS_ATTEMPT", "INVALID_FILE_UPLOAD", "RATE_LIMIT_EXCEEDED",
   "VALIDATION_FAILURE", "SANITIZATION_APPLIED", "CSP_VIOLATION",
   "SUSPICIOUS_ACTIVITY"}

\* enum SecuritySeverity
SecuritySeverity == {"LOW", "MEDIUM", "HIGH", "CRITICAL"}

\* 24 * 60 * 60 * 1000
DayMs == 24 * 60 * 60 * 1000

\* SecurityMonitorService.getEvents(filter): filter is a record that has the
\* fields the caller set
getEvents(evs, filter) ==
  LET byType == IF "type" \in DOMAIN filter
                THEN SelectSeq(evs, LAMBDA e : e.type = filter.type)
                ELSE evs
      bySeverity == IF "severity" \in DOMAIN filter
                    THEN SelectSeq(byType,
                                   LAMBDA e : e.severity = filter.severity)
                    ELSE byType
  IN IF "since" \in DOMAIN filter
     THEN SelectSeq(bySeverity, LAMBDA e : e.timestamp >= filter.since)
     ELSE bySeverity

\* getStatistics with the counts taken over the last 24 hours only
getStatistics_Recent(evs, t) ==
  LET recent == SelectSeq(evs, LAMBDA e : e.timestamp >= t - DayMs)
  IN [totalEvents |-> Len(evs),
      byType |-> [ty \in SecurityEventType |->
                    Len(SelectSeq(recent, LAMBDA e : e.type = ty))],
      bySeverity |-> [sv \in SecuritySeverity |->
                        Len(SelectSeq(recent, LAMBDA e : e.severity = sv))],
      last24Hours |-> Len(recent)]

\* SecurityMonitorService.getStatistics() called at time t
getStatistics(evs, t) ==
  [totalEvents |-> Len(evs),
   byType |-> [ty \in SecurityEventType |->
                 Len(SelectSeq(evs, LAMBDA e : e.type = ty))],
   bySeverity |-> [sv \in SecuritySeverity |->
                     Len(SelectSeq(evs, LAMBDA e : e.severity = sv))],
   last24Hours |-> Len(SelectSeq(evs, LAMBDA e : e.timestamp >= t - DayMs))]

\* SecurityMonitorService.clearEvents(olderThan?): olderThan is <<>> when
\* omitted
clearEvents(evs, olderThan) ==
  IF olderThan # <<>>
  THEN SelectSeq(evs, LAMBDA e : e.timestamp >= olderThan[1])
  ELSE <<>>

\* the functions handed to subscribe(), and those of them that throw when
\* invoked
Callbacks == {"f", "g"}
ThrowingCallbacks == {"g"}

\* notifyListeners without the try/catch: the first exception ends the loop
notifyListeners_NoCatch(ls) ==
  LET bad == {i \in 1..Len(ls) : ls[i].cb \in ThrowingCallbacks}
      stop == IF bad = {} THEN Len(ls)
              ELSE CHOOSE i \in bad : \A j \in bad : i <= j
  IN [i \in 1..stop |-> [cb |-> ls[i].cb, sub |-> ls[i].sub,
                         threw |-> ls[i].cb \in ThrowingCallbacks]]

\* SecurityMonitorService.notifyListeners: the invocations made, in order,
\* each with the exception it raised caught
notifyListeners(ls) ==
  [i \in 1..Len(ls) |-> [cb |-> ls[i].cb, sub |-> ls[i].sub,
                         threw |-> ls[i].cb \in ThrowingCallbacks]]

\* An array getEvents() has returned is kept as [value, alias]: alias tells
\* that it is the very array this.events refers to, which getEvents returns
\* when no field of the filter is set.
\* getEvents(filter) returns this.events itself unless a filter applies
ReturnsBuffer(filter) == DOMAIN filter \cap {"type", "severity", "since"} = {}

\* the arrays held after this.events.unshift(event) and the truncation: the
\* unshift changes the array in place, slice() makes this.events a new one
heldAfterLog(h, evs, event) ==
  [n \in 1..Len(h) |->
     IF h[n].alias
     THEN [value |-> <<event>> \o evs, alias |-> Len(evs) + 1 <= maxEvents]
     ELSE h[n]]

\* the arrays held after clearEvents: this.events is assigned a new array
heldAfterClear(h) == [n \in 1..Len(h) |-> [h[n] EXCEPT !.alias = FALSE]]

\* ------------------------------------------------------------ CSP reporter
maxViolations == 100

\* String.prototype.includes
Includes(s, sub) ==
  \E i \in 1..(Len(s) - Len(sub) + 1) : SubSeq(s, i, i + Len(sub) - 1) = sub

\* CSPReporterService.determineSeverity
determineSeverity(violation) ==
  LET directive == violation.violatedDirective
  IN IF \/ Includes(directive, "script-src")
        \/ Includes(directive, "object-src")
        \/ Includes(directive, "base-uri")
     THEN "HIGH"
     ELSE IF \/ Includes(directive, "style-src")
             \/ Includes(directive, "img-src")
             \/ Includes(directive, "connect-src")
          THEN MEDIUM
          ELSE "LOW"

\* CSPReporterService.handleViolation run once on the state st of the
\* reporter and the monitor: the record is stored first, then the event is
\* logged, which raises where crypto.randomUUID does not exist.  The
\* messages to Sentry and to the reporting endpoint leave no state behind.
handleViolation(st, violation, t, secure) ==
  LET added == <<violation>> \o st.violations
      stored == IF Len(added) > maxViolations
                THEN SubSeq(added, 1, maxViolations) ELSE added
  IN IF secure
     THEN [violations |-> stored,
           events |-> logEvent(st.events, st.nextId + 1, t, "CSP_VIOLATION",
                               determineSeverity(violation),
                               "CSP Violation: "
                                 \o violation.violatedDirective,
                               [violation |-> violation,
                                blockedUri |-> violation.blockedUri,
                                directive |-> violation.violatedDirective]),
           nextId |-> st.nextId + 1]
     ELSE [violations |-> stored, events |-> st.events,
           nextId |-> st.nextId]

\* the document dispatches one securitypolicyviolation event to the n
\* listeners added to it, in the order they were added
RECURSIVE Dispatch(_, _, _, _, _)
Dispatch(n, st, violation, t, secure) ==
  IF n = 0 THEN st
  ELSE Dispatch(n - 1, handleViolation(st, violation, t, secure),
                violation, t, secure)

\* ---------------------------------------------------------- code sanitizer
\* the characters of a string, in order
Chars(s) == [i \in 1..Len(s) |-> SubSeq(s, i, i)]

UpperCase == "ABCDEFGHIJKLMNOPQRSTUVWXYZ"
LowerCase == "abcdefghijklmnopqrstuvwxyz"

\* the case folding of the i flag, on one character
Fold(c) ==
  IF \E i \in 1..Len(UpperCase) : SubSeq(UpperCase, i, i) = c
  THEN LET i == CHOOSE i \in 1..Len(UpperCase) : SubSeq(UpperCase, i, i) = c
       IN SubSeq(LowerCase, i, i)
  ELSE c

\* \w
IsWord(c) ==
  \/ \E i \in 1..Len(LowerCase) : SubSeq(LowerCase, i, i) = c
  \/ \E i \in 1..Len(UpperCase) : SubSeq(UpperCase, i, i) = c
  \/ c \in {"0", "1", "2", "3", "4", "5", "6", "7", "8", "9", "_"}

\* \s, for the white space the inputs contain
IsSpace(c) == c \in {" ", "\t", "\n"}

\* whether the literal lit, compared without case, starts at position i
LiteralAt(cs, i, lit) ==
  /\ i >= 1
  /\ i + Len(lit) - 1 <= Len(cs)
  /\ \A k \in 1..Len(lit) : Fold(cs[i + k - 1]) = SubSeq(lit, k, k)

\* /lit/i.test(code)
TestLiteral(code, lit) ==
  LET cs == Chars(code) IN \E i \in 1..Len(cs) : LiteralAt(cs, i, lit)

\* /lit\s*tail/i.test(code), tail one character
TestLiteralSpaceChar(code, lit, tail) ==
  LET cs == Chars(code)
  IN \E i \in 1..Len(cs) :
       /\ LiteralAt(cs, i, lit)
       /\ \E k \in (i + Len(lit))..Len(cs) :
            /\ cs[k] = tail
            /\ \A j \in (i + Len(lit))..(k - 1) : IsSpace(cs[j])

\* /on\w+\s*=/i.test(code)
TestInlineHandler(code) ==
  LET cs == Chars(code)
  IN \E i \in 1..Len(cs) :
       /\ LiteralAt(cs, i, "on")
       /\ \E w \in (i + 2)..Len(cs), k \in (i + 3)..Len(cs) :
            /\ w < k
            /\ \A j \in (i + 2)..w : IsWord(cs[j])
            /\ \A j \in (w + 1)..(k - 1) : IsSpace(cs[j])
            /\ cs[k] = "="

\* dangerousPatterns: the message of each rule, in the order of the array
RuleMessages ==
  <<"Script tags are not allowed",
    "JavaScript protocol is not allowed",
    "Inline event handlers are not allowed",
    "Iframe elements are not allowed",
    "eval() function is not allowed",
    "Function constructor is not allowed",
    "Object tags are not allowed",
    "Embed tags are not allowed",
    "Data URI with HTML is not allowed",
    "Link tags are not allowed",
    "Base tags are not allowed">>

\* dangerousPatterns[n].pattern.test(code)
RuleMatches(n, code) ==
  CASE n = 1 -> TestLiteral(code, "<script")
    [] n = 2 -> TestLiteral(code, "javascript:")
    [] n = 3 -> TestInlineHandler(code)
    [] n = 4 -> TestLiteral(code, "<iframe")
    [] n = 5 -> TestLiteralSpaceChar(code, "eval", "(")
    [] n = 6 -> TestLiteralSpaceChar(code, "function", "(")
    [] n = 7 -> TestLiteral(code, "<object")
    [] n = 8 -> TestLiteral(code, "<embed")
    [] n = 9 -> TestLiteral(code, "data:text/html")
    [] n = 10 -> TestLiteral(code, "<link")
    [] n = 11 -> TestLiteral(code, "<base")

\* the forEach over dangerousPatterns from rule n on, pushing onto issues
RECURSIVE PushIssues(_, _, _)
PushIssues(n, code, issues) ==
  IF n > Len(RuleMessages) THEN issues
  ELSE PushIssues(n + 1, code,
                  IF RuleMatches(n, code)
                  THEN Append(issues, RuleMessages[n]) ELSE issues)

\* validateCodeSafety that stops at the first rule that matches
validateCodeSafety_FirstOnly(code) ==
  IF code = <<>> \/ code[1] = ""
  THEN [safe |-> TRUE, issues |-> <<>>]
  ELSE LET all == PushIssues(1, code[1], <<>>)
           issues == IF all = <<>> THEN <<>> ELSE <<all[1]>>
       IN [safe |-> Len(issues) = 0, issues |-> issues]

\* validateCodeSafety(code): code is <<>> when undefined or null, <<s>> when
\* the string s
validateCodeSafety(code) ==
  IF code = <<>> \/ code[1] = ""
  THEN [safe |-> TRUE, issues |-> <<>>]
  ELSE LET issues == PushIssues(1, code[1], <<>>)
       IN [safe |-> Len(issues) = 0, issues |-> issues]

\* the map of escapeHtml without the entry of the ampersand
EscapeChar_NoAmp(c) ==
  CASE c = "<" -> "&lt;"
    [] c = ">" -> "&gt;"
    [] c = "\"" -> "&quot;"
    [] c = "'" -> "&#039;"
    [] OTHER -> c

\* the map of escapeHtml, applied to a character the pattern matched or not
EscapeChar(c) ==
  CASE c = "&" -> "&amp;"
    [] c = "<" -> "&lt;"
    [] c = ">" -> "&gt;"
    [] c = "\"" -> "&quot;"
    [] c = "'" -> "&#039;"
    [] OTHER -> c

\* text.replace(/[&<>"']/g, (char) => map[char]) from position i on
RECURSIVE ReplaceFrom(_, _)
ReplaceFrom(text, i) ==
  IF i > Len(text) THEN ""
  ELSE EscapeChar(SubSeq(text, i, i)) \o ReplaceFrom(text, i + 1)

\* escapeHtml(text): text is <<>> when undefined or null, <<s>> when the
\* string s
escapeHtml(text) ==
  IF text = <<>> \/ text[1] = "" THEN "" ELSE ReplaceFrom(text[1], 1)

\* ------------------------------------------------------------ rate limiter
\* const key = `${action}:${identifier}`
Key(action, identifier) == action \o ":" \o identifier

\* FreshEntry with the count started at 0 instead of 1
FreshEntry_Zero(t) == [count |-> 0, firstRequest |-> t, blocked |-> FALSE]

\* the entry written by the "no entry or expired window" branch
FreshEntry(t) == [count |-> 1, firstRequest |-> t, blocked |-> FALSE]

\* entry?.blocked && entry.blockedUntil
BlockedWithUntil(lims, key) ==
  /\ key \in DOMAIN lims
  /\ lims[key].blocked
  /\ "blockedUntil" \in DOMAIN lims[key]
  /\ Truthy(lims[key].blockedUntil)

\* BlockActive with a block that never ends
BlockActive_Forever(entry, t) == TRUE

\* BlockActive with the instant blockedUntil itself still blocked
BlockActive_Inclusive(entry, t) == t <= entry.blockedUntil

\* now < entry.blockedUntil
BlockActive(entry, t) == t < entry.blockedUntil

\* WindowExpired with the operands of the subtraction swapped
WindowExpired_Swapped(entry, config, t) ==
  entry.firstRequest - t > config.windowMs

\* WindowExpired with the window already over at windowStart + windowMs
WindowExpired_Inclusive(entry, config, t) ==
  t - entry.firstRequest >= config.windowMs

\* now - entry.firstRequest > config.windowMs
WindowExpired(entry, config, t) == t - entry.firstRequest > config.windowMs

\* Exceeds with the request that reaches maxRequests already denied
Exceeds_AtLimit(entry, config) == entry.count >= config.maxRequests

\* entry.count > config.maxRequests
Exceeds(entry, config) == entry.count > config.maxRequests

\* NoConfigOutcome failing closed instead of open
NoConfigOutcome_Deny(lims) ==
  [ret |-> FALSE, limits |-> lims, log |-> <<>>, branch |-> "noConfig"]

\* the outcome for an action that has no configuration
NoConfigOutcome(lims) ==
  [ret |-> TRUE, limits |-> lims, log |-> <<>>, branch |-> "noConfig"]

\* the entry after the "limit exceeded" branch has run on it
BlockEntry(entry, config, t) ==
  LET marked == [entry EXCEPT !.blocked = TRUE]
  IN IF "blockDurationMs" \in DOMAIN config /\ Truthy(config.blockDurationMs)
     THEN [f \in DOMAIN marked \cup {"blockedUntil"} |->
             IF f = "blockedUntil" THEN t + config.blockDurationMs
             ELSE marked[f]]
     ELSE marked

\* RateLimiterService.isAllowed as a function of the two maps and the clock:
\* the value returned, the entry map afterwards, the details handed to
\* securityMonitor.logRateLimitExceeded (none: <<>>) and the branch taken.
RECURSIVE isAllowed(_, _, _, _, _)
isAllowed(cfgs, lims, action, identifier, t) ==
  IF action \notin DOMAIN cfgs
  THEN NoConfigOutcome(lims)
  ELSE
    LET config == cfgs[action]
        key == Key(action, identifier)
    IN IF BlockedWithUntil(lims, key)
       THEN IF BlockActive(lims[key], t)
            THEN [ret |-> FALSE, limits |-> lims, log |-> <<>>,
                  branch |-> "blocked"]
            ELSE [isAllowed(cfgs, MapDelete(lims, key), action, identifier, t)
                    EXCEPT !.branch = "blockExpired"]
       ELSE IF key \notin DOMAIN lims
               \/ WindowExpired(lims[key], config, t)
            THEN [ret |-> TRUE, limits |-> MapSet(lims, key, FreshEntry(t)),
                  log |-> <<>>, branch |-> "newWindow"]
            ELSE
              LET counted == [lims[key] EXCEPT !.count = @ + 1]
              IN IF Exceeds(counted, config)
                 THEN [ret |-> FALSE,
                       limits |-> MapSet(lims, key,
                                         BlockEntry(counted, config, t)),
                       log |-> <<[action |-> action,
                                  limit |-> config.maxRequests]>>,
                       branch |-> "exceeded"]
                 ELSE [ret |-> TRUE, limits |-> MapSet(lims, key, counted),
                       log |-> <<>>, branch |-> "counted"]

\* the default limits the module registers on its singleton
DefaultConfigs ==
  [a \in {"message", "fileUpload", "codeGeneration", "apiCall"} |->
     CASE a = "message" ->
            [maxRequests |-> 10, windowMs |-> 60000, blockDurationMs |-> 30000]
       [] a = "fileUpload" ->
            [maxRequests |-> 5, windowMs |-> 60000, blockDurationMs |-> 60000]
       [] a = "codeGeneration" ->
            [maxRequests |-> 20, windowMs |-> 60000, blockDurationMs |-> 30000]
       [] a = "apiCall" ->
            [maxRequests |-> 30, windowMs |-> 60000, blockDurationMs |-> 60000]]

\* the RateLimitConfig values configure() is called with
Configs ==
  [maxRequests : MaxRequestsValues, windowMs : WindowMsValues]
    \cup [maxRequests : MaxRequestsValues, windowMs : WindowMsValues,
          blockDurationMs : BlockDurationMsValues]

\* ---------------------------------------------------------------- history
\* how many admissions of a tracked key are remembered
AdmitKeep == DefaultConfigs["fileUpload"].maxRequests + 1

\* a Map lookup kept as a sequence: <<value>> when present, <<>> when absent
Lookup(m, k) == IF k \in DOMAIN m THEN <<m[k]>> ELSE <<>>

\* how many calls of one entry are counted
HistKeep == DefaultConfigs["fileUpload"].maxRequests + 2

\* one more call, counted up to HistKeep
Counted(n) == IF n < HistKeep THEN n + 1 ELSE n

\* the history of a key after an isAllowed call with outcome r
HistAfter(h, action, identifier, r, t) ==
  LET key == Key(action, identifier)
      config == configs[action]
  IN CASE r.branch = "noConfig" -> h
       [] r.branch \in {"newWindow", "blockExpired"} ->
            MapSet(h, key, [action |-> action, calls |-> 1, trues |-> 1,
                            stable |-> TRUE, blockedAt |-> 0, blockD |-> 0])
       [] r.branch = "blocked" ->
            MapSet(h, key, [h[key] EXCEPT !.calls = Counted(@)])
       [] r.branch = "counted" ->
            MapSet(h, key, [h[key] EXCEPT !.calls = Counted(@), !.trues = @ + 1])
       [] r.branch = "exceeded" ->
            MapSet(h, key,
              IF limits[key].blocked
              THEN [h[key] EXCEPT !.calls = Counted(@)]
              ELSE [h[key] EXCEPT !.calls = Counted(@), !.blockedAt = t,
                      !.blockD = IF "blockDurationMs" \in DOMAIN config
                                 THEN config.blockDurationMs ELSE 0])

\* the admission times of a tracked key after an isAllowed call
AdmittedAfter(adm, action, identifier, returnedTrue, t) ==
  LET key == Key(action, identifier)
  IN IF key \in DOMAIN adm /\ returnedTrue
     THEN MapSet(adm, key,
                 SubSeq(<<t>> \o adm[key], 1,
                        IF Len(adm[key]) + 1 > AdmitKeep THEN AdmitKeep
                        ELSE Len(adm[key]) + 1))
     ELSE adm

\* ---------------------------------------------------------------- actions
\* the outcome of the admission check made now
Admission(action, identifier) ==
  isAllowed(configs, limits, action, identifier, now)

\* logEvent builds the event with crypto.randomUUID(): where that function
\* does not exist the call raises, and isAllowed has no handler around it
Threw(r) == r.log # <<>> /\ ~secureContext

\* what one run of isAllowed leaves behind in the limiter and the monitor
AdmissionEffects(action, identifier, r) ==
  /\ limits' = r.limits
  /\ IF r.log = <<>> \/ Threw(r)
     THEN UNCHANGED <<events, nextId, logged>>
     ELSE /\ events' = logRateLimitExceeded(events, nextId + 1, now, r.log[1])
          /\ nextId' = nextId + 1
          /\ logged' = [logged EXCEPT !.calls = @ + 1]
  /\ hist' = HistAfter(hist, action, identifier, r, now)
  /\ admitted' = AdmittedAfter(admitted, action, identifier,
                               r.ret /\ ~Threw(r), now)

\* the calls explored for one key are bounded
WithinBounds(action, identifier, maxCalls) ==
  /\ Admission(action, identifier).log # <<>> => Len(events) < MaxLogged
  /\ Key(action, identifier) \in DOMAIN hist
       => hist[Key(action, identifier)].calls < maxCalls

\* rateLimiter.isAllowed(action, identifier)
IsAllowed(action, identifier) ==
  /\ LET r == Admission(action, identifier)
     IN /\ AdmissionEffects(action, identifier, r)
        /\ last' = [op |-> "isAllowed", action |-> action,
                    identifier |-> identifier,
                    ret |-> r.ret, threw |-> Threw(r), branch |-> r.branch,
                    pre |-> Lookup(limits, Key(action, identifier)),
                    preHist |-> Lookup(hist, Key(action, identifier)),
                    logged |-> Len(events') - Len(events)]
  /\ UNCHANGED <<configs, now, secureContext, attempts>>
  /\ UNCHANGED observers
  /\ UNCHANGED clients

\* rateLimiter.configure(action, config)
Configure(action, config) ==
  /\ configs' = MapSet(configs, action, config)
  /\ hist' = [k \in DOMAIN hist |->
                IF hist[k].action = action /\ configs[action] # config
                THEN [hist[k] EXCEPT !.stable = FALSE] ELSE hist[k]]
  /\ last' = [op |-> "configure"]
  /\ UNCHANGED <<limits, events, nextId, now, secureContext, attempts,
                 admitted>>
  /\ UNCHANGED observers
  /\ UNCHANGED clients
  /\ UNCHANGED logged

\* rateLimiter.reset(action, identifier?): identifier is <<>> when omitted
Reset(action, identifier) ==
  /\ limits' =
       IF identifier # <<>> /\ identifier[1] # ""
       THEN MapDelete(limits, Key(action, identifier[1]))
       ELSE [k \in {x \in DOMAIN limits : ~StartsWith(x, action \o ":")} |->
               limits[k]]
  /\ hist' = [k \in DOMAIN limits' |-> hist[k]]
  /\ last' = [op |-> "reset"]
  /\ UNCHANGED <<configs, events, nextId, now, secureContext, attempts,
                 admitted>>
  /\ UNCHANGED observers
  /\ UNCHANGED clients
  /\ UNCHANGED logged

\* rateLimiter.clearAll()
ClearAll ==
  /\ limits' = EmptyMap
  /\ hist' = EmptyMap
  /\ last' = [op |-> "clearAll"]
  /\ UNCHANGED <<configs, events, nextId, now, secureContext, attempts,
                 admitted>>
  /\ UNCHANGED observers
  /\ UNCHANGED clients
  /\ UNCHANGED logged

\* what the callback handed to attempt() does when it is invoked: return a
\* value, throw an Error, throw a value that is no Error, or return a promise
\* that later resolves or rejects with an Error
FnBehaviours == {"returns", "throws", "throwsValue", "resolves", "rejects"}

\* the failure result of a denied attempt
DeniedResult(cfgs, action) ==
  LET waitTime == IF action \in DOMAIN cfgs
                  THEN Ceil(cfgs[action].windowMs, 1000) ELSE 60
  IN [success |-> FALSE,
      error |-> "Rate limit exceeded. Please wait " \o ToString(waitTime)
                  \o " seconds before trying again."]

\* the result built by the catch block of attempt()
CaughtResult(fn) ==
  [success |-> FALSE,
   error |-> IF fn \in {"throws", "rejects"} THEN "boom" ELSE "Unknown error"]

\* rateLimiter.attempt(action, fn, identifier) up to its first suspension:
\* the admission check runs outside the try block, fn() inside it.  A value
\* fn returns synchronously is awaited in a microtask that runs before any
\* other call, so that attempt is settled within this step.
Attempt(action, fn, identifier) ==
  /\ Len(attempts) < MaxAttempts
  /\ LET r == Admission(action, identifier)
         call == [action |-> action, identifier |-> identifier, fn |-> fn,
                  config |-> Lookup(configs, action)]
         outcome ==
           CASE Threw(r) ->
                  [admission |-> "threw", fnCalls |-> 0, state |-> "rejected"]
             [] ~Threw(r) /\ ~r.ret ->
                  [admission |-> "denied", fnCalls |-> 0,
                   state |-> "fulfilled",
                   result |-> DeniedResult(configs, action)]
             [] ~Threw(r) /\ r.ret /\ fn = "returns" ->
                  [admission |-> "allowed", fnCalls |-> 1,
                   state |-> "fulfilled",
                   result |-> [success |-> TRUE, data |-> "data"]]
             [] ~Threw(r) /\ r.ret /\ fn \in {"throws", "throwsValue"} ->
                  [admission |-> "allowed", fnCalls |-> 1,
                   state |-> "fulfilled", result |-> CaughtResult(fn)]
             [] OTHER ->
                  [admission |-> "allowed", fnCalls |-> 1,
                   state |-> "awaiting"]
     IN /\ AdmissionEffects(action, identifier, r)
        /\ attempts' = Append(attempts, [call |-> call, outcome |-> outcome])
  /\ last' = [op |-> "attempt"]
  /\ UNCHANGED <<configs, now, secureContext>>
  /\ UNCHANGED observers
  /\ UNCHANGED clients

\* the promise fn returned settles and attempt() resumes after its await
AttemptSettle(n) ==
  /\ attempts[n].outcome.state = "awaiting"
  /\ attempts' =
       [attempts EXCEPT ![n].outcome =
          [admission |-> @.admission, fnCalls |-> @.fnCalls,
           state |-> "fulfilled",
           result |-> IF attempts[n].call.fn = "resolves"
                      THEN [success |-> TRUE, data |-> "data"]
                      ELSE CaughtResult(attempts[n].call.fn)]]
  /\ last' = [op |-> "settle"]
  /\ UNCHANGED <<configs, limits, events, nextId, now, secureContext, hist,
                 admitted>>
  /\ UNCHANGED observers
  /\ UNCHANGED clients
  /\ UNCHANGED logged

\* the clock advances to t
Tick(t) ==
  /\ t > now
  /\ now' = t
  /\ last' = [op |-> "tick"]
  /\ UNCHANGED <<configs, limits, events, nextId, secureContext, attempts,
                 hist, admitted>>
  /\ UNCHANGED observers
  /\ UNCHANGED clients
  /\ UNCHANGED logged

\* ---------------------------------------------------------- specifications
\* a RateLimiterService constructed with `new`, in a page that has
\* crypto.randomUUID
Init ==
  /\ configs = EmptyMap
  /\ limits = EmptyMap
  /\ events = <<>>
  /\ nextId = 0
  /\ now = 0
  /\ secureContext = TRUE
  /\ attempts = <<>>
  /\ last = [op |-> "init"]
  /\ hist = EmptyMap
  /\ admitted = EmptyMap
  /\ listeners = <<>>
  /\ subs = <<>>
  /\ violations = <<>>
  /\ handlers = 0
  /\ endpoint = <<>>
  /\ logged = [calls |-> 0, cleared |-> FALSE]
  /\ ClientsIdle

Next ==
  \/ \E a \in ActionNames, i \in Identifiers :
       WithinBounds(a, i, MaxCalls) /\ IsAllowed(a, i)
  \/ \E a \in ConfiguredNames, c \in Configs : Configure(a, c)
  \/ \E a \in ActionNames, i \in {<<>>} \cup {<<x>> : x \in Identifiers} :
       Reset(a, i)
  \/ ClearAll
  \/ \E t \in (now + 1)..MaxNow : Tick(t)

Spec == Init /\ [][Next]_vars

\* the singleton `rateLimiter` with the limits the module registers; the
\* clock visits the instants around the ends of the 60000 ms windows, and
\* the admissions of the fileUpload keys are recorded
DefaultActions == {"fileUpload"}

DefaultInstants ==
  LET w == DefaultConfigs["fileUpload"].windowMs
  IN {1, w - 1, w, w + 1, 2 * w, 2 * w + 1, 2 * w + 2}

MaxCallsDefault == DefaultConfigs["fileUpload"].maxRequests + 2

InitDefault ==
  /\ configs = DefaultConfigs
  /\ limits = EmptyMap
  /\ events = <<>>
  /\ nextId = 0
  /\ now = 0
  /\ secureContext = TRUE
  /\ attempts = <<>>
  /\ last = [op |-> "init"]
  /\ hist = EmptyMap
  /\ admitted = [k \in {Key(a, i) : a \in DefaultActions, i \in Identifiers}
                   |-> <<>>]
  /\ listeners = <<>>
  /\ subs = <<>>
  /\ violations = <<>>
  /\ handlers = 0
  /\ endpoint = <<>>
  /\ logged = [calls |-> 0, cleared |-> FALSE]
  /\ ClientsIdle

NextDefault ==
  \/ \E a \in DefaultActions, i \in Identifiers :
       WithinBounds(a, i, MaxCallsDefault) /\ IsAllowed(a, i)
  \/ \E t \in DefaultInstants : Tick(t)

SpecDefault == InitDefault /\ [][NextDefault]_vars

\* attempt() on a fresh RateLimiterService, in a page that may or may not
\* have crypto.randomUUID
AttemptConfigs ==
  [maxRequests : {1}, windowMs : {2, 1500}]
    \cup [maxRequests : {1}, windowMs : {2, 1500}, blockDurationMs : {2}]

InitAttempt ==
  /\ configs = EmptyMap
  /\ limits = EmptyMap
  /\ events = <<>>
  /\ nextId = 0
  /\ now = 0
  /\ secureContext \in BOOLEAN
  /\ attempts = <<>>
  /\ last = [op |-> "init"]
  /\ hist = EmptyMap
  /\ admitted = EmptyMap
  /\ listeners = <<>>
  /\ subs = <<>>
  /\ violations = <<>>
  /\ handlers = 0
  /\ endpoint = <<>>
  /\ logged = [calls |-> 0, cleared |-> FALSE]
  /\ ClientsIdle

NextAttempt ==
  \/ \E a \in ConfiguredNames, c \in AttemptConfigs : Configure(a, c)
  \/ \E a \in ActionNames, i \in Identifiers, fn \in FnBehaviours :
       WithinBounds(a, i, MaxCalls) /\ Attempt(a, fn, i)
  \/ \E n \in 1..Len(attempts) : AttemptSettle(n)
  \/ \E t \in (now + 1)..MaxNow : Tick(t)

SpecAttempt == InitAttempt /\ [][NextAttempt]_vars

\* a fresh RateLimiterService whose clock keeps advancing, one millisecond
\* at a time, while the keys of the configured action keep being requested
LiveConfigs == {c \in Configs : c.maxRequests > 1}

LiveRequest ==
  \E a \in ConfiguredNames, i \in Identifiers :
    /\ Admission(a, i).log # <<>> => Len(events) < MaxLoggedLive
    /\ IsAllowed(a, i)

LiveTick == now < MaxNowLive /\ Tick(now + 1)

InitLive ==
  /\ configs = EmptyMap
  /\ limits = EmptyMap
  /\ events = <<>>
  /\ nextId = 0
  /\ now = 0
  /\ secureContext = TRUE
  /\ attempts = <<>>
  /\ last = [op |-> "init"]
  /\ hist = EmptyMap
  /\ admitted = EmptyMap
  /\ listeners = <<>>
  /\ subs = <<>>
  /\ violations = <<>>
  /\ handlers = 0
  /\ endpoint = <<>>
  /\ logged = [calls |-> 0, cleared |-> FALSE]
  /\ ClientsIdle

NextLive ==
  \/ LiveRequest
  \/ \E a \in ConfiguredNames, c \in LiveConfigs : Configure(a, c)
  \/ \E a \in ConfiguredNames, i \in {<<>>} \cup {<<x>> : x \in Identifiers} :
       Reset(a, i)
  \/ ClearAll
  \/ LiveTick

SpecLive ==
  InitLive /\ [][NextLive]_vars /\ WF_vars(LiveTick) /\ WF_vars(LiveRequest)

\* --------------------------------------------- security monitor, operations
\* securityMonitor.logEvent(type, severity, message, details): building the
\* event raises where crypto.randomUUID does not exist, before anything is
\* stored; otherwise the event is stored and every listener is notified
LogEvent(type, severity) ==
  /\ IF secureContext
     THEN /\ events' = logEvent(events, nextId + 1, now, type, severity,
                                type \o " logged", <<>>)
          /\ nextId' = nextId + 1
          /\ logged' = [logged EXCEPT !.calls = @ + 1]
          /\ last' = [op |-> "logEvent", threw |-> FALSE, id |-> nextId + 1,
                      subscribed |-> listeners,
                      notified |-> notifyListeners(listeners)]
     ELSE /\ last' = [op |-> "logEvent", threw |-> TRUE, id |-> 0,
                      subscribed |-> listeners, notified |-> <<>>]
          /\ UNCHANGED <<events, nextId, logged>>
  /\ held' = IF secureContext THEN heldAfterLog(held, events, events'[1])
             ELSE held
  /\ UNCHANGED <<configs, limits, now, secureContext, attempts, hist,
                 admitted, observers>>
  /\ UNCHANGED <<messages, isTyping, activeAgent, pending, lastUploadTime,
                 uploads>>

\* securityMonitor.clearEvents(olderThan?)
ClearEvents(olderThan) ==
  /\ events' = clearEvents(events, olderThan)
  /\ logged' = [logged EXCEPT !.cleared = TRUE]
  /\ last' = [op |-> "clearEvents"]
  /\ held' = heldAfterClear(held)
  /\ UNCHANGED <<configs, limits, nextId, now, secureContext, attempts,
                 hist, admitted, observers>>
  /\ UNCHANGED <<messages, isTyping, activeAgent, pending, lastUploadTime,
                 uploads>>

\* securityMonitor.subscribe(callback): the closure returned is kept as
\* subs[Len(subs')], with the callback it captured
Subscribe(cb) ==
  /\ Len(subs) < MaxSubs
  /\ listeners' = Append(listeners, [cb |-> cb, sub |-> Len(subs) + 1])
  /\ subs' = Append(subs, [cb |-> cb, called |-> FALSE])
  /\ last' = [op |-> "subscribe"]
  /\ UNCHANGED <<configs, limits, events, nextId, now, secureContext,
                 attempts, hist, admitted, violations, handlers, endpoint,
                 logged>>
  /\ UNCHANGED clients

\* a call of the closure subscribe() returned for subscription n:
\* this.listeners = this.listeners.filter((l) => l !== callback)
Unsubscribe(n) ==
  /\ listeners' = SelectSeq(listeners, LAMBDA l : l.cb # subs[n].cb)
  /\ subs' = [subs EXCEPT ![n].called = TRUE]
  /\ last' = [op |-> "unsubscribe", sub |-> n, first |-> ~subs[n].called,
              before |-> listeners]
  /\ UNCHANGED <<configs, limits, events, nextId, now, secureContext,
                 attempts, hist, admitted, violations, handlers, endpoint,
                 logged>>
  /\ UNCHANGED clients

\* the (type, severity) pairs logEvent is called with
LogInputs ==
  {<<"XSS_ATTEMPT", "HIGH">>, <<RATE_LIMIT_EXCEEDED, MEDIUM>>,
   <<"VALIDATION_FAILURE", "LOW">>}

\* the instants the clock of the monitor visits
MonitorInstants == {1, DayMs + 1}

\* the numbers of events logged before the explored calls begin
PrefillSizes == {0, maxEvents - 2}

\* the buffer after n logEvent calls made at time 0
Prefilled(n) ==
  [i \in 1..n |->
     [id |-> n + 1 - i, timestamp |-> 0, type |-> "SUSPICIOUS_ACTIVITY",
      severity |-> "LOW", message |-> "SUSPICIOUS_ACTIVITY logged",
      details |-> <<>>]]

\* the singleton securityMonitor, fresh or nearly full, without subscribers
InitMonitor ==
  /\ configs = EmptyMap
  /\ limits = EmptyMap
  /\ \E n \in PrefillSizes :
       /\ events = Prefilled(n)
       /\ nextId = n
       /\ logged = [calls |-> n, cleared |-> FALSE]
  /\ now = 0
  /\ secureContext = TRUE
  /\ attempts = <<>>
  /\ last = [op |-> "init"]
  /\ hist = EmptyMap
  /\ admitted = EmptyMap
  /\ listeners = <<>>
  /\ subs = <<>>
  /\ violations = <<>>
  /\ handlers = 0
  /\ endpoint = <<>>
  /\ ClientsIdle

NextMonitor ==
  \/ \E in \in LogInputs :
       /\ \E n \in PrefillSizes : n <= nextId /\ nextId < n + MaxLogCalls
       /\ LogEvent(in[1], in[2])
  \/ \E olderThan \in {<<>>} \cup {<<t>> : t \in MonitorInstants} :
       ClearEvents(olderThan)
  \/ \E t \in MonitorInstants : Tick(t)

SpecMonitor == InitMonitor /\ [][NextMonitor]_vars

\* the singleton securityMonitor and its subscribers
InitSubscribers ==
  /\ configs = EmptyMap
  /\ limits = EmptyMap
  /\ events = <<>>
  /\ nextId = 0
  /\ logged = [calls |-> 0, cleared |-> FALSE]
  /\ now = 0
  /\ secureContext = TRUE
  /\ attempts = <<>>
  /\ last = [op |-> "init"]
  /\ hist = EmptyMap
  /\ admitted = EmptyMap
  /\ listeners = <<>>
  /\ subs = <<>>
  /\ violations = <<>>
  /\ handlers = 0
  /\ endpoint = <<>>
  /\ ClientsIdle

NextSubscribers ==
  \/ \E cb \in Callbacks : Subscribe(cb)
  \/ \E n \in 1..Len(subs) : Unsubscribe(n)
  \/ nextId < MaxLogCalls /\ LogEvent("SUSPICIOUS_ACTIVITY", "LOW")

SpecSubscribers == InitSubscribers /\ [][NextSubscribers]_vars

\* ------------------------------------------------- CSP reporter, operations
\* cspReporter.init(endpoint?): endpoint is <<>> when omitted; every call
\* adds one more listener to the document
CspInit(ep) ==
  /\ endpoint' = IF ep # <<>> /\ ep[1] # "" THEN ep ELSE <<"/api/csp-report">>
  /\ handlers' = handlers + 1
  /\ last' = [op |-> "cspInit"]
  /\ UNCHANGED <<configs, limits, events, nextId, now, secureContext,
                 attempts, hist, admitted, listeners, subs, violations,
                 logged>>
  /\ UNCHANGED clients

\* the browser reports one violation of the policy
SecurityPolicyViolation(directive, blockedUri) ==
  LET violation == [violatedDirective |-> directive, blockedUri |-> blockedUri]
      st == Dispatch(handlers,
                     [violations |-> violations, events |-> events,
                      nextId |-> nextId],
                     violation, now, secureContext)
  IN /\ violations' = st.violations
     /\ events' = st.events
     /\ nextId' = st.nextId
     /\ logged' = [logged EXCEPT !.calls = @ + (st.nextId - nextId)]
     /\ last' = [op |-> "securitypolicyviolation", violation |-> violation,
                 before |-> violations, eventsBefore |-> events]
     /\ UNCHANGED <<configs, limits, now, secureContext, attempts, hist,
                    admitted, listeners, subs, handlers, endpoint>>
     /\ UNCHANGED clients

\* cspReporter.clearViolations()
ClearViolations ==
  /\ violations' = <<>>
  /\ last' = [op |-> "clearViolations"]
  /\ UNCHANGED <<configs, limits, events, nextId, now, secureContext,
                 attempts, hist, admitted, listeners, subs, handlers,
                 endpoint, logged>>
  /\ UNCHANGED clients

\* the violated directives and blocked URIs the browser reports
Directives == {"script-src 'self'", "img-src 'self'", "font-src"}
BlockedUris == {"https://evil.example/x.js"}

\* the endpoints init() is called with
Endpoints == {<<>>, <<"/csp">>}

\* the numbers of violations stored before the explored reports begin
CspPrefillSizes == {0, maxViolations - 1}

\* the module as loaded in a page: the singleton is constructed and
\* cspReporter.init() has run once
InitCsp ==
  /\ configs = EmptyMap
  /\ limits = EmptyMap
  /\ events = <<>>
  /\ nextId = 0
  /\ logged = [calls |-> 0, cleared |-> FALSE]
  /\ now = 0
  /\ secureContext = TRUE
  /\ attempts = <<>>
  /\ last = [op |-> "init"]
  /\ hist = EmptyMap
  /\ admitted = EmptyMap
  /\ listeners = <<>>
  /\ subs = <<>>
  /\ \E n \in CspPrefillSizes :
       violations = [i \in 1..n |-> [violatedDirective |-> "font-src",
                                     blockedUri |-> "https://old.example/"]]
  /\ handlers = 1
  /\ endpoint = <<"/api/csp-report">>
  /\ ClientsIdle

NextCsp ==
  \/ \E ep \in Endpoints : handlers < MaxHandlers /\ CspInit(ep)
  \/ \E d \in Directives, u \in BlockedUris :
       Len(events) < MaxLogCalls /\ SecurityPolicyViolation(d, u)
  \/ ClearViolations

SpecCsp == InitCsp /\ [][NextCsp]_vars

\* ------------------------------------------------- code sanitizer, calls
\* the pieces the input strings are made of
Fragments ==
  {"<script>", "<SCRIPT", "JavaScript:", "onclick", "on", "=", " ", "eval",
   "(", "Function", "<iframe", "<object", "<embed", "data:text/html",
   "<link", "<base", "x"}

\* the pieces the texts handed to escapeHtml are made of
TextFragments == {"&", "<", ">", "\"", "'", "a", "amp;", "&lt;"}

\* the strings made of at most n pieces
RECURSIVE Strings(_, _)
Strings(parts, n) ==
  IF n = 0 THEN {""}
  ELSE LET shorter == Strings(parts, n - 1)
       IN shorter \cup {s \o f : s \in shorter, f \in parts}

\* an argument: absent, or one of the strings
Arguments(parts) == {<<>>} \cup {<<s>> : s \in Strings(parts, MaxParts)}

\* the arguments the functions of the module are called with
SanitizerInputs == Arguments(Fragments) \cup Arguments(TextFragments)

\* a call validateCodeSafety(code), with the result of the call before it
\* when that was a call of validateCodeSafety too
ValidateCodeSafety(code) ==
  /\ last' = [op |-> "validateCodeSafety", input |-> code,
              result |-> validateCodeSafety(code),
              before |-> IF last.op = "validateCodeSafety"
                         THEN <<last.result>> ELSE <<>>]
  /\ UNCHANGED <<configs, limits, events, nextId, now, secureContext,
                 attempts, hist, admitted, observers, logged>>
  /\ UNCHANGED clients

\* a call escapeHtml(text)
EscapeHtml(text) ==
  /\ last' = [op |-> "escapeHtml", input |-> text,
              result |-> escapeHtml(text)]
  /\ UNCHANGED <<configs, limits, events, nextId, now, secureContext,
                 attempts, hist, admitted, observers, logged>>
  /\ UNCHANGED clients

\* the module codeSanitizer holds no state of its own; a behaviour calls its
\* functions, any number of times, with one argument
InitSanitizer ==
  /\ configs = EmptyMap
  /\ limits = EmptyMap
  /\ events = <<>>
  /\ nextId = 0
  /\ logged = [calls |-> 0, cleared |-> FALSE]
  /\ now = 0
  /\ secureContext = TRUE
  /\ attempts = <<>>
  /\ \E x \in SanitizerInputs : last = [op |-> "input", input |-> x]
  /\ hist = EmptyMap
  /\ admitted = EmptyMap
  /\ listeners = <<>>
  /\ subs = <<>>
  /\ violations = <<>>
  /\ handlers = 0
  /\ endpoint = <<>>
  /\ ClientsIdle

NextSanitizer ==
  \/ ValidateCodeSafety(last.input)
  \/ EscapeHtml(last.input)

SpecSanitizer == InitSanitizer /\ [][NextSanitizer]_vars

\* ------------------------------------------------------------ properties
\* the state is the one an isAllowed call for a configured action returned in
AfterConfiguredCall ==
  last.op = "isAllowed" /\ last.action \in DOMAIN configs

\* the entry the specification prescribes for a window opened now
Fresh == [count |-> 1, firstRequest |-> now, blocked |-> FALSE]

\* the key of the last call, its configuration and its history
LastKey == Key(last.action, last.identifier)
LastConfig == configs[last.action]
LastHist == hist[LastKey]

\* C1: with maxRequests = N >= 1 unchanged since the entry of a key was
\* created, the 1st..Nth calls of the window return true and log nothing; the
\* (N+1)th returns false and adds exactly one RATE_LIMIT_EXCEEDED event of
\* severity MEDIUM with details {action, limit: N}.
C1_Boundary ==
  (AfterConfiguredCall /\ LastHist.stable /\ LastConfig.maxRequests >= 1) =>
     /\ LastHist.calls <= LastConfig.maxRequests =>
          last.ret /\ ~last.threw /\ last.logged = 0
     /\ LastHist.calls = LastConfig.maxRequests + 1 =>
          /\ ~last.ret /\ ~last.threw
          /\ last.logged = 1
          /\ Head(events).type = "RATE_LIMIT_EXCEEDED"
          /\ Head(events).severity = "MEDIUM"
          /\ Head(events).details =
               [action |-> last.action, limit |-> LastConfig.maxRequests]

\* C1 witness: the third call of a window under maxRequests = 2 was denied
\* and logged one event
C1_Witness ==
  /\ AfterConfiguredCall /\ LastHist.stable
  /\ LastConfig.maxRequests = 2 /\ LastHist.calls = 3 /\ LastHist.trues = 2
  /\ ~last.ret /\ last.logged = 1

\* C2 (as claimed): for every maxRequests value N, at most N calls for a key
\* return true between the creation of its entry and the entry's reset.
C2_AtMostN ==
  \A k \in DOMAIN hist :
    hist[k].stable => hist[k].trues <= configs[hist[k].action].maxRequests

\* C3 (as claimed): every stored entry has count >= 1, and an entry whose count
\* is greater than the maxRequests of its action's configuration is blocked.
C3_CountBlocked ==
  \A k \in DOMAIN limits :
    /\ limits[k].count >= 1
    /\ limits[k].count > configs[hist[k].action].maxRequests
         => limits[k].blocked

\* C4: a key blocked at time t under blockDurationMs = D > 0 keeps
\* blockedUntil = t + D whatever calls are denied meanwhile, and the first call
\* at a time >= t + D returns true and leaves the fresh entry
\* (count 1, firstRequest now, not blocked).
C4_BlockEnds ==
  /\ \A k \in DOMAIN limits :
       (limits[k].blocked /\ hist[k].blockD > 0) =>
          /\ "blockedUntil" \in DOMAIN limits[k]
          /\ limits[k].blockedUntil = hist[k].blockedAt + hist[k].blockD
  /\ (/\ AfterConfiguredCall
      /\ last.pre # <<>> /\ last.pre[1].blocked
      /\ last.preHist[1].blockD > 0
      /\ now >= last.preHist[1].blockedAt + last.preHist[1].blockD) =>
        /\ last.ret /\ ~last.threw
        /\ limits[LastKey] = Fresh

\* C4 witness: a call at or after t + D was allowed after a denied retry had
\* been made during the block
C4_Witness ==
  /\ AfterConfiguredCall
  /\ last.pre # <<>> /\ last.pre[1].blocked
  /\ last.preHist[1].blockD > 0
  /\ last.preHist[1].calls > last.pre[1].count
  /\ now >= last.preHist[1].blockedAt + last.preHist[1].blockD
  /\ last.ret

\* the last call found an entry whose window had expired
AfterWindowExpiredCall ==
  /\ AfterConfiguredCall
  /\ last.pre # <<>>
  /\ now > last.pre[1].firstRequest + LastConfig.windowMs

\* the last call found an entry blocked with a blockedUntil still ahead
FoundActiveBlock ==
  /\ last.pre # <<>> /\ last.pre[1].blocked
  /\ "blockedUntil" \in DOMAIN last.pre[1]
  /\ now < last.pre[1].blockedUntil

\* C5 (as claimed): a call later than windowStart + windowMs returns true and
\* resets the entry whatever its block state was.
C5_WindowResetAlways ==
  AfterWindowExpiredCall =>
    last.ret /\ limits[LastKey] = Fresh

\* C5 (amended): a call later than windowStart + windowMs returns true and
\* resets the entry unless the entry is blocked with a blockedUntil that is
\* still ahead; in that case the call returns false and the entry is kept.
C5_WindowReset ==
  AfterWindowExpiredCall =>
    IF FoundActiveBlock
    THEN ~last.ret /\ ~last.threw /\ limits[LastKey] = last.pre[1]
    ELSE last.ret /\ ~last.threw /\ limits[LastKey] = Fresh

\* C5 witness: an entry blocked without blockedUntil was reset by a call
\* after its window
C5_Witness ==
  /\ AfterWindowExpiredCall
  /\ last.pre[1].blocked /\ "blockedUntil" \notin DOMAIN last.pre[1]
  /\ last.ret /\ limits[LastKey] = Fresh

\* C6: under an unchanged configuration without blockDurationMs, a call for a
\* blocked key returns false while now - windowStart <= windowMs and returns
\* true once now - windowStart > windowMs.
C6_BlockUntilWindow ==
  (/\ AfterConfiguredCall
   /\ last.pre # <<>> /\ last.pre[1].blocked
   /\ last.preHist[1].stable
   /\ "blockDurationMs" \notin DOMAIN LastConfig) =>
     /\ ~last.threw
     /\ last.ret <=> now - last.pre[1].firstRequest > LastConfig.windowMs

\* C6 witness: a denied call at the last instant of the window of a key
\* blocked without blockDurationMs
C6_Witness ==
  /\ AfterConfiguredCall
  /\ last.pre # <<>> /\ last.pre[1].blocked
  /\ last.preHist[1].stable
  /\ "blockDurationMs" \notin DOMAIN LastConfig
  /\ now - last.pre[1].firstRequest = LastConfig.windowMs
  /\ ~last.ret

\* the last call found a blocked entry
AfterBlockedCall ==
  AfterConfiguredCall /\ last.pre # <<>> /\ last.pre[1].blocked

\* C7 (as claimed): a call that finds a blocked entry whose blockedUntil has
\* passed or was never set returns true and leaves the fresh entry.
C7_ExpiredOrUnsetDeletes ==
  (/\ AfterBlockedCall
   /\ \/ "blockedUntil" \notin DOMAIN last.pre[1]
      \/ now >= last.pre[1].blockedUntil) =>
     last.ret /\ limits[LastKey] = Fresh

\* C7 (amended): a call that finds a blocked entry whose blockedUntil has
\* passed returns true and leaves the fresh entry.  Where blockedUntil was
\* never set the entry is not deleted: the call is decided by the window
\* check, returning true with the fresh entry once the window has expired and
\* otherwise incrementing the count of the kept, still blocked entry and
\* returning true only if that count is within maxRequests.
C7_ExpiredDeletes ==
  AfterBlockedCall =>
    /\ ~last.threw
    /\ ("blockedUntil" \in DOMAIN last.pre[1]
          /\ now >= last.pre[1].blockedUntil) =>
         last.ret /\ limits[LastKey] = Fresh
    /\ ("blockedUntil" \notin DOMAIN last.pre[1]
          /\ now - last.pre[1].firstRequest > LastConfig.windowMs) =>
         last.ret /\ limits[LastKey] = Fresh
    /\ ("blockedUntil" \notin DOMAIN last.pre[1]
          /\ now - last.pre[1].firstRequest <= LastConfig.windowMs) =>
         /\ limits[LastKey].count = last.pre[1].count + 1
         /\ limits[LastKey].firstRequest = last.pre[1].firstRequest
         /\ limits[LastKey].blocked
         /\ last.ret <=> last.pre[1].count + 1 <= LastConfig.maxRequests

\* C7 witness: a call at the instant blockedUntil was reached, inside the
\* window of the blocked entry, replaced it by the fresh entry
C7_Witness ==
  /\ AfterBlockedCall
  /\ "blockedUntil" \in DOMAIN last.pre[1]
  /\ now >= last.pre[1].blockedUntil
  /\ now - last.pre[1].firstRequest <= LastConfig.windowMs
  /\ last.ret /\ limits[LastKey] = Fresh

\* C9: a call for an action without configuration returns true, stores no
\* entry for the key and logs no event.
C9_UnconfiguredAllowed ==
  /\ (last.op = "isAllowed" /\ last.action \notin DOMAIN configs) =>
       /\ last.ret /\ ~last.threw
       /\ last.logged = 0
       /\ last.pre = <<>>
       /\ LastKey \notin DOMAIN limits
  /\ \A k \in DOMAIN limits : hist[k].action \in DOMAIN configs

\* C9 witness: a call for an unconfigured action returned true while another
\* action was configured and had an entry
C9_Witness ==
  /\ last.op = "isAllowed" /\ last.action \notin DOMAIN configs
  /\ last.ret
  /\ limits # EmptyMap

\* C8 (as claimed): under the default fileUpload limit (5 per 60000 ms) no
\* time interval shorter than 60000 ms holds more than 5 admissions of one
\* identifier: any 6 consecutive admissions span at least 60000 ms.
C8_FivePerMinute ==
  LET c == DefaultConfigs["fileUpload"]
  IN \A i \in Identifiers :
       LET times == admitted[Key("fileUpload", i)]
       IN Len(times) > c.maxRequests =>
            times[1] - times[c.maxRequests + 1] >= c.windowMs

\* the wait the specification prescribes for a denied attempt
WaitSeconds(windowMs) ==
  IF windowMs % 1000 = 0 THEN windowMs \div 1000 ELSE windowMs \div 1000 + 1

\* the claims of C10 about one attempt() call
AttemptAsClaimed(a) ==
  /\ a.outcome.state # "rejected"
  /\ a.outcome.fnCalls = IF a.outcome.admission = "allowed" THEN 1 ELSE 0
  /\ a.outcome.admission = "denied" =>
       /\ a.outcome.state = "fulfilled"
       /\ a.outcome.result =
            [success |-> FALSE,
             error |-> "Rate limit exceeded. Please wait "
                         \o ToString(WaitSeconds(a.call.config[1].windowMs))
                         \o " seconds before trying again."]
  /\ (a.outcome.state = "fulfilled" /\ a.outcome.admission = "allowed"
        /\ a.call.fn \in {"throws", "throwsValue", "rejects"}) =>
       /\ ~a.outcome.result.success
       /\ a.outcome.result.error \in {"boom", "Unknown error"}

\* C10 (as claimed): attempt invokes fn exactly once iff the admission check
\* allows the call; a denied call never invokes fn and yields the failure
\* result with ceil(windowMs/1000) seconds; a throwing or rejecting fn yields
\* {success: false, error: message}; the returned promise never rejects.
C10_AttemptNeverRejects ==
  \A n \in 1..Len(attempts) : AttemptAsClaimed(attempts[n])

\* ------------------------------------------------------------------- C11
\* the keys the specification with fairness requests
LiveKeys == {Key(a, i) : a \in ConfiguredNames, i \in Identifiers}

\* the state of a key in the state machine of the limiter
KeyState(lims, cfgs, k) ==
  CASE k \notin DOMAIN lims -> "NONE"
    [] k \in DOMAIN lims /\ lims[k].blocked -> "BLOCKED"
    [] OTHER ->
         LET max == cfgs[CHOOSE a \in ConfiguredNames : StartsWith(k, a \o ":")]
                      .maxRequests
         IN IF lims[k].count < max THEN "OPEN_LT"
            ELSE IF lims[k].count = max THEN "OPEN_EQ" ELSE "OPEN_OVER"

\* the moves along NONE -> OPEN(count<max) -> OPEN(count=max) -> BLOCKED ->
\* NONE that one call can make: staying, moving forward, and leaving BLOCKED
\* through NONE
ChainMoves ==
  {<<"NONE", "NONE">>, <<"NONE", "OPEN_LT">>, <<"NONE", "OPEN_EQ">>,
   <<"OPEN_LT", "OPEN_LT">>, <<"OPEN_LT", "OPEN_EQ">>,
   <<"OPEN_EQ", "OPEN_EQ">>, <<"OPEN_EQ", "BLOCKED">>,
   <<"BLOCKED", "BLOCKED">>, <<"BLOCKED", "NONE">>,
   <<"BLOCKED", "OPEN_LT">>, <<"BLOCKED", "OPEN_EQ">>}

\* the latest instant at which every block in force has ended by MaxNowLive
Early ==
  MaxNowLive - (CHOOSE w \in WindowMsValues : \A x \in WindowMsValues : x <= w)
             - (CHOOSE d \in BlockDurationMsValues :
                  \A x \in BlockDurationMsValues : x <= d)

BlockedEarly(k) == k \in DOMAIN limits /\ limits[k].blocked /\ now <= Early

ReturnedTrue(k) ==
  last.op = "isAllowed" /\ Key(last.action, last.identifier) = k /\ last.ret

\* while the clock advances and the key is requested, a blocked key is
\* admitted again
EventuallyAdmitted == \A k \in LiveKeys : BlockedEarly(k) ~> ReturnedTrue(k)

C12_MostRecent ==
  /\ Len(events) <= 1000
  /\ ~logged.cleared
       => LET got == getEvents(events, [x \in {} |-> 0])
          IN /\ Len(got) = IF logged.calls < 1000 THEN logged.calls ELSE 1000
             /\ \A i \in 1..Len(got) : got[i].id = logged.calls + 1 - i

\* the call that logs event number 1001 evicts the first event logged
C12_Witness ==
  /\ last.op = "logEvent"
  /\ ~logged.cleared
  /\ logged.calls = 1001
  /\ events[Len(events)].id = 2

\* ------------------------------------------------------------------- C13
\* C13: getStatistics().totalEvents equals getEvents().length, byType has an
\* entry for each of the 7 event types and bySeverity for each of the 4
\* severities, either family of counts sums to totalEvents, and last24Hours
\* is at most totalEvents
RECURSIVE SumOver(_, _)
SumOver(f, keys) ==
  IF keys = {} THEN 0
  ELSE LET k == CHOOSE x \in keys : TRUE
       IN f[k] + SumOver(f, keys \ {k})

C13_Statistics ==
  LET stats == getStatistics(events, now)
  IN /\ stats.totalEvents = Len(getEvents(events, [x \in {} |-> 0]))
     /\ DOMAIN stats.byType =
          {"XSS_ATTEMPT", "INVALID_FILE_UPLOAD", "RATE_LIMIT_EXCEEDED",
           "VALIDATION_FAILURE", "SANITIZATION_APPLIED", "CSP_VIOLATION",
           "SUSPICIOUS_ACTIVITY"}
     /\ DOMAIN stats.bySeverity = {"LOW", "MEDIUM", "HIGH", "CRITICAL"}
     /\ SumOver(stats.byType, DOMAIN stats.byType) = stats.totalEvents
     /\ SumOver(stats.bySeverity, DOMAIN stats.bySeverity) = stats.totalEvents
     /\ stats.last24Hours <= stats.totalEvents

\* the buffer holds events of several types, some older than 24 hours, and
\* some types have none
C13_Witness ==
  LET stats == getStatistics(events, now)
  IN /\ stats.totalEvents >= 1000
     /\ stats.byType["XSS_ATTEMPT"] > 0
     /\ stats.byType[RATE_LIMIT_EXCEEDED] > 0
     /\ stats.byType["CSP_VIOLATION"] = 0
     /\ stats.last24Hours > 0
     /\ stats.last24Hours < stats.totalEvents

\* ------------------------------------------------------------------- C14
\* C14: a logEvent call invokes each callback subscribed at that moment
\* exactly once with the new event, in subscription order, whether or not
\* some of them throw; the event stays at the head of the buffer, the
\* subscriptions stay as they were and logEvent does not throw
C14_NotifyAll ==
  last.op = "logEvent"
    => /\ ~last.threw
       /\ Len(last.notified) = Len(last.subscribed)
       /\ \A i \in 1..Len(last.subscribed) :
            /\ last.notified[i].sub = last.subscribed[i].sub
            /\ last.notified[i].cb = last.subscribed[i].cb
       /\ events # <<>>
       /\ events[1].id = last.id
       /\ listeners = last.subscribed

\* a callback that throws is followed by one that is still invoked
C14_Witness ==
  /\ last.op = "logEvent"
  /\ \E i, j \in 1..Len(last.notified) :
       /\ i < j
       /\ last.notified[i].threw
       /\ ~last.notified[j].threw

\* ------------------------------------------------------------------- C15
\* C15: the first call of an unsubscribe function removes the subscription
\* it was returned for and nothing else, and every later call changes
\* nothing
C15_UnsubscribeIdempotent ==
  last.op = "unsubscribe"
    => listeners =
         IF last.first
         THEN SelectSeq(last.before, LAMBDA l : l.sub # last.sub)
         ELSE last.before

\* ------------------------------------------------------------------- C16
\* C16: one securitypolicyviolation notification adds exactly one record to
\* the buffer of the reporter, at its head, the buffer keeping its 100
\* newest records, and exactly one CSP_VIOLATION event to the monitor
C16_OneRecordOneEvent ==
  last.op = "securitypolicyviolation"
    => /\ violations =
            SubSeq(<<last.violation>> \o last.before, 1,
                   IF Len(last.before) + 1 > 100 THEN 100
                   ELSE Len(last.before) + 1)
       /\ Len(events) = Len(last.eventsBefore) + 1
       /\ events[1].type = "CSP_VIOLATION"
       /\ SubSeq(events, 2, Len(events)) = last.eventsBefore

\* ------------------------------------------------------------------- C19
\* the positions of the rules a result reports, in the order reported
RulesReported(issues) ==
  [i \in 1..Len(issues) |->
     CHOOSE n \in 1..11 : RuleMessages[n] = issues[i]]

\* C19: validateCodeSafety returns the messages of exactly the rules whose
\* pattern matches the input, each once and in the order of the rule list;
\* safe is true exactly when there are no issues; and a second call with the
\* same input returns an equal result
C19_AllMatchesInOrder ==
  last.op = "validateCodeSafety"
    => LET issues == last.result.issues
           code == IF last.input = <<>> THEN "" ELSE last.input[1]
       IN /\ \A i \in 1..Len(issues) :
               \E n \in 1..11 : RuleMessages[n] = issues[i]
          /\ \A i, j \in 1..Len(issues) :
               i < j => RulesReported(issues)[i] < RulesReported(issues)[j]
          /\ \A n \in 1..11 :
               RuleMatches(n, code)
                 <=> \E i \in 1..Len(issues) : issues[i] = RuleMessages[n]
          /\ last.result.safe <=> issues = <<>>
          /\ last.before # <<>> => last.before[1] = last.result

\* an input that matches several rules is reported for each, a second time
C19_Witness ==
  /\ last.op = "validateCodeSafety"
  /\ last.before # <<>>
  /\ last.result.issues =
       <<"Script tags are not allowed", "JavaScript protocol is not allowed">>

\* ------------------------------------------------------------------- C20
\* the entity escapeHtml is to write for a character
Entity(c) ==
  IF c = "&" THEN "&amp;"
  ELSE IF c = "<" THEN "&lt;"
  ELSE IF c = ">" THEN "&gt;"
  ELSE IF c = "\"" THEN "&quot;"
  ELSE IF c = "'" THEN "&#039;"
  ELSE c

\* the entities of the characters of a string from position i on
RECURSIVE Entities(_, _)
Entities(text, i) ==
  IF i > Len(text) THEN ""
  ELSE Entity(SubSeq(text, i, i)) \o Entities(text, i + 1)

\* C20: escapeHtml writes the entity of each of & < > " ' in its place and
\* every other character as it is, returns the empty string for empty or
\* absent input, and gives different outputs for different strings
C20_EscapeInjective ==
  last.op = "escapeHtml"
    => /\ last.input = <<>> => last.result = ""
       /\ last.input # <<>> => last.result = Entities(last.input[1], 1)
       /\ last.input # <<>>
            => \A other \in Strings(TextFragments, MaxParts) :
                 other # last.input[1]
                   => escapeHtml(<<other>>) # last.result

\* a text that already holds an entity is escaped once more
C20_Witness ==
  /\ last.op = "escapeHtml"
  /\ last.input = <<"&lt;<">>
  /\ last.result = "&amp;lt;&lt;"

\* -------------------------------------------- rate limiter, the read-outs
\* Infinity, the value getRemaining returns for an action without limits
Infinity == "Infinity"

\* Math.max(0, n)
AtLeastZero(n) == IF n > 0 THEN n ELSE 0

\* RateLimiterService.getRemaining(action, identifier) at time t
getRemaining(cfgs, lims, action, identifier, t) ==
  IF action \notin DOMAIN cfgs THEN Infinity
  ELSE LET config == cfgs[action]
           key == Key(action, identifier)
       IN IF key \notin DOMAIN lims THEN config.maxRequests
          ELSE IF t - lims[key].firstRequest > config.windowMs
               THEN config.maxRequests
               ELSE AtLeastZero(config.maxRequests - lims[key].count)

\* RateLimiterService.getResetTime(action, identifier) at time t
getResetTime(cfgs, lims, action, identifier, t) ==
  IF action \notin DOMAIN cfgs THEN 0
  ELSE LET key == Key(action, identifier)
       IN IF key \notin DOMAIN lims THEN 0
          ELSE AtLeastZero(lims[key].firstRequest + cfgs[action].windowMs - t)

\* RateLimiterService.getStatistics(); activeActions is kept as the set of
\* the keys, the order of the array being the insertion order of the Map
rateLimiterStatistics(lims) ==
  [totalActions |-> Cardinality(DOMAIN lims),
   blockedActions |-> Cardinality({k \in DOMAIN lims : lims[k].blocked}),
   activeActions |-> DOMAIN lims]

\* rateLimiter.getRemaining(action, identifier), with what isAllowed would
\* return for the same arguments at the same instant
GetRemaining(action, identifier) ==
  /\ last' = [op |-> "getRemaining", action |-> action,
              identifier |-> identifier,
              ret |-> getRemaining(configs, limits, action, identifier, now),
              admits |-> Admission(action, identifier).ret,
              before |-> limits]
  /\ UNCHANGED <<configs, limits, events, nextId, now, secureContext,
                 attempts, hist, admitted, logged>>
  /\ UNCHANGED observers
  /\ UNCHANGED clients

\* rateLimiter.getResetTime(action, identifier)
GetResetTime(action, identifier) ==
  /\ last' = [op |-> "getResetTime", action |-> action,
              identifier |-> identifier,
              ret |-> getResetTime(configs, limits, action, identifier, now),
              before |-> limits]
  /\ UNCHANGED <<configs, limits, events, nextId, now, secureContext,
                 attempts, hist, admitted, logged>>
  /\ UNCHANGED observers
  /\ UNCHANGED clients

\* rateLimiter.getStatistics(), as the security dashboard calls it
GetStatistics ==
  /\ last' = [op |-> "getStatistics", ret |-> rateLimiterStatistics(limits)]
  /\ UNCHANGED <<configs, limits, events, nextId, now, secureContext,
                 attempts, hist, admitted, logged>>
  /\ UNCHANGED observers
  /\ UNCHANGED clients

\* the limits the read-outs are explored with
ReadoutConfigs ==
  [maxRequests : {1, 2}, windowMs : {1, 2}]
    \cup [maxRequests : {1, 2}, windowMs : {1, 2}, blockDurationMs : {1, 2}]

\* a fresh RateLimiterService configured once, in a page that may or may not
\* have crypto.randomUUID, with its read-outs
InitReadouts ==
  /\ \E c \in ReadoutConfigs : configs = [a \in ConfiguredNames |-> c]
  /\ limits = EmptyMap
  /\ events = <<>>
  /\ nextId = 0
  /\ now = 0
  /\ secureContext \in BOOLEAN
  /\ attempts = <<>>
  /\ last = [op |-> "init"]
  /\ hist = EmptyMap
  /\ admitted = EmptyMap
  /\ listeners = <<>>
  /\ subs = <<>>
  /\ violations = <<>>
  /\ handlers = 0
  /\ endpoint = <<>>
  /\ logged = [calls |-> 0, cleared |-> FALSE]
  /\ ClientsIdle

NextReadouts ==
  \/ \E a \in ActionNames, i \in Identifiers :
       WithinBounds(a, i, MaxCalls) /\ IsAllowed(a, i)
  \/ \E a \in ActionNames, i \in Identifiers : GetRemaining(a, i)
  \/ \E a \in ActionNames, i \in Identifiers : GetResetTime(a, i)
  \/ GetStatistics
  \/ \E t \in (now + 1)..MaxNow : Tick(t)

SpecReadouts == InitReadouts /\ [][NextReadouts]_vars

\* C21: isAllowed returns a boolean for every call and never raises: the
\* call that trips the limit returns false and leaves the key blocked, also
\* where its RATE_LIMIT_EXCEEDED event cannot be built.
C21_NeverThrows ==
  last.op = "isAllowed" =>
    /\ ~last.threw
    /\ last.branch = "exceeded" =>
         /\ ~last.ret
         /\ limits[last.action \o ":" \o last.identifier].blocked

\* C23: one RATE_LIMIT_EXCEEDED event is logged per block episode: a call
\* that is denied on a key that was already blocked logs no further event,
\* whether or not the limit has a blockDurationMs.
C23_OneEventPerBlock ==
  (/\ last.op = "isAllowed"
   /\ last.pre # <<>>
   /\ ~last.ret)
    => (last.pre[1].blocked => last.logged = 0)

\* C25: for a configured action getRemaining is above zero exactly when
\* isAllowed would return true at that instant, and neither getRemaining nor
\* getResetTime changes an entry.
C25_RemainingIffAllowed ==
  /\ (last.op = "getRemaining" /\ last.action \in DOMAIN configs)
       => ((last.ret > 0) <=> last.admits)
  /\ last.op \in {"getRemaining", "getResetTime"} => limits = last.before

\* C28: blockedActions of getStatistics is the number of keys whose entry
\* is blocked and for which isAllowed would be denied now; a block that has
\* expired is not counted.
C28_BlockedActionsCount ==
  last.op = "getStatistics" =>
    last.ret.blockedActions =
      Cardinality({k \in DOMAIN limits :
        /\ limits[k].blocked
        /\ \E a \in ActionNames, i \in Identifiers :
             /\ k = a \o ":" \o i
             /\ ~isAllowed(configs, limits, a, i, now).ret})

\* ------------------------------------------- rate limiter, colliding keys
\* action names and identifiers that contain the separator of the key, or
\* are empty
KeyActions == {"a", "a:b"}
KeyIdentifiers == {"c", "b:c", ""}

\* isAllowed calls explored per key in the specification of the keys
MaxCallsKeys == 2

\* a fresh RateLimiterService with one limit configured for both actions
InitKeys ==
  /\ configs = [a \in KeyActions |-> [maxRequests |-> 1, windowMs |-> 2]]
  /\ limits = EmptyMap
  /\ events = <<>>
  /\ nextId = 0
  /\ now = 0
  /\ secureContext = TRUE
  /\ attempts = <<>>
  /\ last = [op |-> "init"]
  /\ hist = EmptyMap
  /\ admitted = EmptyMap
  /\ listeners = <<>>
  /\ subs = <<>>
  /\ violations = <<>>
  /\ handlers = 0
  /\ endpoint = <<>>
  /\ logged = [calls |-> 0, cleared |-> FALSE]
  /\ ClientsIdle

NextKeys ==
  \/ \E a \in KeyActions, i \in KeyIdentifiers :
       WithinBounds(a, i, MaxCallsKeys) /\ IsAllowed(a, i)
  \/ \E a \in KeyActions, i \in {<<>>} \cup {<<x>> : x \in KeyIdentifiers} :
       Reset(a, i)
  \/ ClearAll

SpecKeys == InitKeys /\ [][NextKeys]_vars

\* the entry stored for the pair (action, identifier), <<>> when there is none
EntryOf(lims, action, identifier) ==
  IF action \o ":" \o identifier \in DOMAIN lims
  THEN <<lims[action \o ":" \o identifier]>> ELSE <<>>

\* the (action, identifier) pairs of the explored calls
KeyPairs == KeyActions \X KeyIdentifiers

\* every pair other than those in `touched` keeps its entry in this step
OthersKeep(touched) ==
  \A p \in KeyPairs \ touched :
    EntryOf(limits', p[1], p[2]) = EntryOf(limits, p[1], p[2])

\* C24: entries are isolated per (action, identifier) pair, for all strings:
\* isAllowed(a, i) changes no other pair's entry, reset(a, i) removes the
\* entry of (a, i) and no other, reset(a) removes the entries of a and no
\* other, and none of them changes a configuration.
C24_PairsIsolated ==
  [][\A a \in KeyActions :
       /\ \A i \in KeyIdentifiers :
            /\ IsAllowed(a, i) => OthersKeep({<<a, i>>}) /\ configs' = configs
            /\ Reset(a, <<i>>) =>
                 /\ EntryOf(limits', a, i) = <<>>
                 /\ OthersKeep({<<a, i>>})
                 /\ configs' = configs
       /\ Reset(a, <<>>) =>
            /\ \A i \in KeyIdentifiers : EntryOf(limits', a, i) = <<>>
            /\ OthersKeep({a} \X KeyIdentifiers)
            /\ configs' = configs]_vars

\* ------------------------------------------------------------ the chat hook
\* sendMessage calls made in one behaviour
MaxSends == 2

\* String.prototype.trim: the text without the white space at its two ends
RECURSIVE trim(_)
trim(s) ==
  IF s = "" THEN ""
  ELSE IF IsSpace(SubSeq(s, 1, 1)) THEN trim(SubSeq(s, 2, Len(s)))
  ELSE IF IsSpace(SubSeq(s, Len(s), Len(s))) THEN trim(SubSeq(s, 1, Len(s) - 1))
  ELSE s

\* generateAgentResponse(userInput, agent, type): the canned text the service
\* picks is kept as the agent and the input it is picked for
generateAgentResponse(userInput, agent) == agent \o " answers " \o userInput

\* chatReducer whose ADD_AGENT_MESSAGE leaves isTyping as it is
chatReducer_KeepTyping(state, action) ==
  CASE action.type = "SET_AGENT" -> [state EXCEPT !.activeAgent = action.agent]
    [] action.type = "ADD_MESSAGE" ->
         [state EXCEPT !.messages = Append(@, action.message)]
    [] action.type = "ADD_AGENT_MESSAGE" ->
         [state EXCEPT !.messages = Append(@, action.message)]
    [] action.type = "SET_TYPING" -> [state EXCEPT !.isTyping = action.isTyping]
    [] action.type = "CLEAR_MESSAGES" -> [state EXCEPT !.messages = <<>>]
    [] OTHER -> state

\* chatReducer(state, action)
chatReducer(state, action) ==
  CASE action.type = "SET_AGENT" -> [state EXCEPT !.activeAgent = action.agent]
    [] action.type = "ADD_MESSAGE" ->
         [state EXCEPT !.messages = Append(@, action.message)]
    [] action.type = "ADD_AGENT_MESSAGE" ->
         [state EXCEPT !.messages = Append(@, action.message),
                       !.isTyping = FALSE]
    [] action.type = "SET_TYPING" -> [state EXCEPT !.isTyping = action.isTyping]
    [] action.type = "CLEAR_MESSAGES" -> [state EXCEPT !.messages = <<>>]
    [] OTHER -> state

\* chatState, and the state after dispatch(action)
chatState ==
  [messages |-> messages, isTyping |-> isTyping, activeAgent |-> activeAgent]

Dispatched(state) ==
  /\ messages' = state.messages
  /\ isTyping' = state.isTyping
  /\ activeAgent' = state.activeAgent

\* sendMessage(content) up to its await: a blank content returns at once;
\* otherwise the user message is added, isTyping is set and the call waits
\* for its timer, holding the activeAgent of the render it was created in.
\* The field `re` of a message is history: the id of the user message a
\* response answers, 0 on a user message.
SendMessage(content) ==
  LET sanitizedContent == trim(content)
      userMessage == [id |-> nextId + 1, agentId |-> "user",
                      content |-> sanitizedContent, type |-> "text", re |-> 0]
  IN /\ IF sanitizedContent = "" \/ ~secureContext
        THEN /\ UNCHANGED <<messages, isTyping, activeAgent, pending, nextId>>
             /\ last' = [op |-> "sendMessage", content |-> content,
                         blank |-> sanitizedContent = "",
                         threw |-> sanitizedContent # "", id |-> 0,
                         before |-> chatState]
        ELSE /\ Dispatched(
                  chatReducer(
                    chatReducer(chatState, [type |-> "ADD_MESSAGE",
                                            message |-> userMessage]),
                    [type |-> "SET_TYPING", isTyping |-> TRUE]))
             /\ nextId' = nextId + 1
             /\ pending' = pending \cup {[re |-> nextId + 1,
                                          content |-> sanitizedContent,
                                          agent |-> activeAgent]}
             /\ last' = [op |-> "sendMessage", content |-> content,
                         blank |-> FALSE, threw |-> FALSE, id |-> nextId + 1,
                         before |-> chatState]
     /\ UNCHANGED <<configs, limits, events, now, secureContext, attempts,
                    hist, admitted, logged, held, lastUploadTime, uploads>>
     /\ UNCHANGED observers

\* the timer of the sendMessage call p fires: the rest of the call builds
\* the response and dispatches ADD_AGENT_MESSAGE
TimerFires(p) ==
  LET agentResponse ==
        [id |-> nextId + 1, agentId |-> p.agent,
         content |-> generateAgentResponse(p.content, p.agent),
         type |-> IF StartsWith(p.content, "*") THEN "command" ELSE "text",
         re |-> p.re]
  IN /\ p \in pending
     /\ Dispatched(chatReducer(chatState, [type |-> "ADD_AGENT_MESSAGE",
                                           message |-> agentResponse]))
     /\ nextId' = nextId + 1
     /\ pending' = pending \ {p}
     /\ last' = [op |-> "agentResponse", re |-> p.re, id |-> nextId + 1,
                 before |-> chatState]
     /\ UNCHANGED <<configs, limits, events, now, secureContext, attempts,
                    hist, admitted, logged, held, lastUploadTime, uploads>>
     /\ UNCHANGED observers

\* changeAgent(agent)
ChangeAgent(agent) ==
  /\ Dispatched(chatReducer(chatState, [type |-> "SET_AGENT", agent |-> agent]))
  /\ last' = [op |-> "changeAgent"]
  /\ UNCHANGED <<configs, limits, events, nextId, now, secureContext,
                 attempts, hist, admitted, logged, held, pending,
                 lastUploadTime, uploads>>
  /\ UNCHANGED observers

\* clearChat()
ClearChat ==
  /\ Dispatched(chatReducer(chatState, [type |-> "CLEAR_MESSAGES"]))
  /\ last' = [op |-> "clearChat"]
  /\ UNCHANGED <<configs, limits, events, nextId, now, secureContext,
                 attempts, hist, admitted, logged, held, pending,
                 lastUploadTime, uploads>>
  /\ UNCHANGED observers

\* the contents sendMessage is called with, and the agents of the chat
ChatContents == {"", "  ", "hi", " hi ", "*help "}
ChatAgents == {"orchestrator", "analyst"}

\* a further sendMessage call stays within MaxSends: every call takes two
\* ids, one for its message and one for the response
MaySend == nextId + Cardinality(pending) + 2 <= 2 * MaxSends

\* the hook as mounted, in a page that has crypto.randomUUID
InitChat ==
  /\ configs = EmptyMap
  /\ limits = EmptyMap
  /\ events = <<>>
  /\ nextId = 0
  /\ now = 0
  /\ secureContext = TRUE
  /\ attempts = <<>>
  /\ last = [op |-> "init"]
  /\ hist = EmptyMap
  /\ admitted = EmptyMap
  /\ listeners = <<>>
  /\ subs = <<>>
  /\ violations = <<>>
  /\ handlers = 0
  /\ endpoint = <<>>
  /\ logged = [calls |-> 0, cleared |-> FALSE]
  /\ ClientsIdle

NextChat ==
  \/ \E c \in ChatContents : MaySend /\ SendMessage(c)
  \/ \E p \in pending : TimerFires(p)
  \/ \E a \in ChatAgents : ChangeAgent(a)
  \/ ClearChat

SpecChat == InitChat /\ [][NextChat]_vars

\* the timers of the browser fire: every waiting call is resumed
SpecChatLive ==
  SpecChat /\ \A m \in 1..(2 * MaxSends) :
                WF_vars(\E p \in pending : p.re = m /\ TimerFires(p))

\* the text is the input without the white space at its two ends
IsTrimOf(text, input) ==
  \E i \in 1..Len(input), j \in 1..Len(input) :
    /\ text = SubSeq(input, i, j)
    /\ i <= j
    /\ SubSeq(input, i, i) \notin {" ", "\t", "\n"}
    /\ SubSeq(input, j, j) \notin {" ", "\t", "\n"}
    /\ \A k \in (1..(i - 1)) \cup ((j + 1)..Len(input)) :
         SubSeq(input, k, k) \in {" ", "\t", "\n"}

\* the input is empty or white space only
IsBlank(input) ==
  \A k \in 1..Len(input) : SubSeq(input, k, k) \in {" ", "\t", "\n"}

\* sendMessage has just appended the user message with id m
SentNow(m) == last.op = "sendMessage" /\ last.id = m

\* the response to the user message m has just been appended, last in the
\* list, and isTyping is false
AnsweredNow(m) ==
  /\ last.op = "agentResponse"
  /\ last.re = m
  /\ ~isTyping
  /\ Len(messages) > 0
  /\ messages[Len(messages)].re = m
  /\ messages[Len(messages)].agentId # "user"

\* C22: sendMessage with a non-blank content appends the trimmed user
\* message (agentId 'user') at once and sets isTyping; eventually the one
\* response to that message is appended after it, with isTyping false, and
\* no second response to it is ever appended; a blank content appends
\* nothing and leaves isTyping as it was.
C22_SendThenRespond ==
  /\ [](last.op = "sendMessage" =>
          IF IsBlank(last.content)
          THEN messages = last.before.messages
               /\ isTyping = last.before.isTyping
          ELSE /\ Len(messages) = Len(last.before.messages) + 1
               /\ SubSeq(messages, 1, Len(messages) - 1) = last.before.messages
               /\ messages[Len(messages)].agentId = "user"
               /\ messages[Len(messages)].id = last.id
               /\ IsTrimOf(messages[Len(messages)].content, last.content)
               /\ isTyping)
  /\ \A m \in 1..(2 * MaxSends) : SentNow(m) ~> AnsweredNow(m)
  /\ [][\A m \in 1..(2 * MaxSends) :
          AnsweredNow(m)' /\ nextId' # nextId =>
            /\ \E p \in pending : p.re = m
            /\ \A p \in pending' : p.re # m
            /\ \A i \in 1..Len(messages) : messages[i].re # m]_vars

\* a response has been appended while the message it answers is in the list
C22_Witness ==
  /\ last.op = "agentResponse"
  /\ ~isTyping
  /\ \E i \in 1..Len(messages) :
       /\ messages[i].agentId = "user"
       /\ messages[i].id = last.re
       /\ messages[i].content = "hi"
       /\ i < Len(messages)

\* C30: isTyping is true exactly while a response is pending, also with two
\* overlapping sendMessage calls, and every response in the list comes
\* after the user message it answers.
C30_TypingWhilePending ==
  /\ isTyping <=> pending # {}
  /\ \A i \in 1..Len(messages), j \in 1..Len(messages) :
       messages[j].id = messages[i].re => j < i

\* ------------------------------------------- visual builder, image upload
\* VALIDATION.RATE_LIMIT_DELAY
RATE_LIMIT_DELAY == 1000

\* handleImageUpload calls that reach the content validation in one behaviour
MaxUploads == 2

\* the files an upload is started with: none selected, one of a type that
\* is not allowed, one above MAX_FILE_SIZE, one whose first bytes are not
\* those of an image, and an image
UploadFiles == {"none", "badType", "tooLarge", "badContent", "image"}

\* the instants the clock visits while uploads are made
UploadInstants ==
  {RATE_LIMIT_DELAY + 1, 2 * RATE_LIMIT_DELAY - 1, 2 * RATE_LIMIT_DELAY,
   3 * RATE_LIMIT_DELAY}

\* handleImageUpload(event) up to its await: the rate check against
\* lastUploadTime.current, then the checks of type and size; a call that
\* passes them waits for validateImageContent, holding the `now` it read
HandleImageUpload(file) ==
  /\ IF file = "none"
     THEN /\ last' = [op |-> "handleImageUpload", outcome |-> "noFile"]
          /\ UNCHANGED uploads
     ELSE IF now - lastUploadTime < RATE_LIMIT_DELAY
     THEN /\ last' = [op |-> "handleImageUpload", outcome |-> "tooFast"]
          /\ UNCHANGED uploads
     ELSE IF file \in {"badType", "tooLarge"}
     THEN /\ last' = [op |-> "handleImageUpload", outcome |-> file]
          /\ UNCHANGED uploads
     ELSE /\ Len(uploads) < MaxUploads
          /\ uploads' = Append(uploads, [now |-> now, file |-> file,
                                         stage |-> "validating"])
          /\ last' = [op |-> "handleImageUpload", outcome |-> "validating"]
  /\ UNCHANGED <<configs, limits, events, nextId, now, secureContext,
                 attempts, hist, admitted, logged, held, messages, isTyping,
                 activeAgent, pending, lastUploadTime>>
  /\ UNCHANGED observers

\* validateImageContent of the call uploads[n] resolves and the call goes
\* on: it is rejected, or lastUploadTime.current is set to the `now` the
\* call read when it started and the image is accepted
ContentValidated(n) ==
  /\ uploads[n].stage = "validating"
  /\ IF uploads[n].file = "badContent"
     THEN /\ uploads' = [uploads EXCEPT ![n].stage = "rejected"]
          /\ UNCHANGED lastUploadTime
     ELSE /\ uploads' = [uploads EXCEPT ![n].stage = "accepted"]
          /\ lastUploadTime' = uploads[n].now
  /\ last' = [op |-> "contentValidated", upload |-> n]
  /\ UNCHANGED <<configs, limits, events, nextId, now, secureContext,
                 attempts, hist, admitted, logged, held, messages, isTyping,
                 activeAgent, pending>>
  /\ UNCHANGED observers

\* the component as mounted, at an instant of a running clock: Date.now()
\* is far above RATE_LIMIT_DELAY
InitUpload ==
  /\ configs = EmptyMap
  /\ limits = EmptyMap
  /\ events = <<>>
  /\ nextId = 0
  /\ now = RATE_LIMIT_DELAY
  /\ secureContext = TRUE
  /\ attempts = <<>>
  /\ last = [op |-> "init"]
  /\ hist = EmptyMap
  /\ admitted = EmptyMap
  /\ listeners = <<>>
  /\ subs = <<>>
  /\ violations = <<>>
  /\ handlers = 0
  /\ endpoint = <<>>
  /\ logged = [calls |-> 0, cleared |-> FALSE]
  /\ ClientsIdle

NextUpload ==
  \/ \E f \in UploadFiles : HandleImageUpload(f)
  \/ \E n \in 1..Len(uploads) : ContentValidated(n)
  \/ \E t \in UploadInstants : Tick(t)

SpecUpload == InitUpload /\ [][NextUpload]_vars

\* C29: two uploads that start less than RATE_LIMIT_DELAY apart are never
\* both accepted, also when the second starts while the first is waiting
\* for its content validation.
C29_NeverBothAccepted ==
  \A i \in 1..Len(uploads), j \in 1..Len(uploads) :
    (/\ i < j
     /\ uploads[i].stage = "accepted"
     /\ uploads[j].stage = "accepted")
      => uploads[j].now - uploads[i].now >= 1000

\* ------------------------------------- security monitor, arrays handed out
\* arrays handed out by getEvents in one behaviour
MaxHeld == 2

\* securityMonitor.getEvents(filter): the caller keeps what it is given
GetEvents(filter) ==
  /\ Len(held) < MaxHeld
  /\ held' = Append(held, [value |-> getEvents(events, filter),
                           alias |-> ReturnsBuffer(filter)])
  /\ last' = [op |-> "getEvents", filter |-> filter]
  /\ UNCHANGED <<configs, limits, events, nextId, now, secureContext,
                 attempts, hist, admitted, logged, messages, isTyping,
                 activeAgent, pending, lastUploadTime, uploads>>
  /\ UNCHANGED observers

\* the caller removes the last element of the array held[n] with pop();
\* when that array is this.events the buffer of the monitor loses it too
MutateHeld(n) ==
  /\ Len(held[n].value) > 0
  /\ held' = [m \in 1..Len(held) |->
                IF m = n \/ (held[n].alias /\ held[m].alias)
                THEN [held[m] EXCEPT
                        !.value = SubSeq(@, 1, Len(@) - 1)]
                ELSE held[m]]
  /\ events' = IF held[n].alias THEN SubSeq(events, 1, Len(events) - 1)
               ELSE events
  /\ last' = [op |-> "mutateHeld", array |-> n]
  /\ UNCHANGED <<configs, limits, nextId, now, secureContext, attempts,
                 hist, admitted, logged, messages, isTyping, activeAgent,
                 pending, lastUploadTime, uploads>>
  /\ UNCHANGED observers

\* the filters getEvents is called with: none, and one by type
EventFilters == {<<>>, [type |-> "XSS_ATTEMPT"]}

\* the singleton securityMonitor and the callers of getEvents
InitSnapshots ==
  /\ configs = EmptyMap
  /\ limits = EmptyMap
  /\ events = <<>>
  /\ nextId = 0
  /\ logged = [calls |-> 0, cleared |-> FALSE]
  /\ now = 0
  /\ secureContext = TRUE
  /\ attempts = <<>>
  /\ last = [op |-> "init"]
  /\ hist = EmptyMap
  /\ admitted = EmptyMap
  /\ listeners = <<>>
  /\ subs = <<>>
  /\ violations = <<>>
  /\ handlers = 0
  /\ endpoint = <<>>
  /\ ClientsIdle

NextSnapshots ==
  \/ \E in \in LogInputs : nextId < MaxLogCalls /\ LogEvent(in[1], in[2])
  \/ \E f \in EventFilters : GetEvents(f)
  \/ \E n \in 1..Len(held) : MutateHeld(n)
  \/ ClearEvents(<<>>)

SpecSnapshots == InitSnapshots /\ [][NextSnapshots]_vars

\* C26: an array returned by getEvents, with or without a filter, is a
\* snapshot: a later logEvent does not change it, and the caller changing
\* it changes neither what getEvents nor what getStatistics reports later.
C26_Snapshot ==
  [][/\ last'.op = "logEvent" =>
          \A n \in 1..Len(held) : held'[n].value = held[n].value
     /\ last'.op = "mutateHeld" =>
          /\ events' = events
          /\ \A n \in 1..Len(held) : n # last'.array =>
                                       held'[n].value = held[n].value]_vars

\* --------------------------- security monitor, subscribers that log events
\* a function handed to subscribe() that calls securityMonitor.logEvent from
\* inside its invocation, for every event but the ones it logs itself
ReentrantCallbacks == {"h"}
FollowUpType == "SUSPICIOUS_ACTIVITY"

\* logEvent and notifyListeners with such subscribers, on
\* st = [events, nextId, trace]: trace lists the invocations made, each with
\* the subscription invoked and the id of the event it was given. The call
\* a callback makes runs to its end, its own notifyListeners included,
\* before the forEach of the outer notifyListeners goes on.
RECURSIVE logEventNested(_, _, _, _, _)
RECURSIVE notifyFrom(_, _, _, _, _)
logEventNested(st, ls, t, type, severity) ==
  LET id == st.nextId + 1
      stored == [st EXCEPT
                   !.events = logEvent(@, id, t, type, severity,
                                       type \o " logged", <<>>),
                   !.nextId = id]
  IN notifyFrom(stored, ls, 1, [id |-> id, type |-> type], t)

notifyFrom(st, ls, k, event, t) ==
  IF k > Len(ls) THEN st
  ELSE LET invoked == [st EXCEPT !.trace = Append(@, [sub |-> ls[k].sub,
                                                      id |-> event.id])]
           returned == IF ls[k].cb \in ReentrantCallbacks
                          /\ event.type # FollowUpType
                       THEN logEventNested(invoked, ls, t, FollowUpType, "LOW")
                       ELSE invoked
       IN notifyFrom(returned, ls, k + 1, event, t)

\* securityMonitor.logEvent(type, severity, ...) with the subscribers of
\* this specification; no array of getEvents is held here
LogEventNested(type, severity) ==
  LET st == logEventNested([events |-> events, nextId |-> nextId,
                            trace |-> <<>>],
                           listeners, now, type, severity)
  IN /\ events' = st.events
     /\ nextId' = st.nextId
     /\ logged' = [logged EXCEPT !.calls = @ + (st.nextId - nextId)]
     /\ last' = [op |-> "logEventNested", id |-> nextId + 1,
                 subscribed |-> listeners, trace |-> st.trace]
     /\ UNCHANGED <<configs, limits, now, secureContext, attempts, hist,
                    admitted, observers>>
     /\ UNCHANGED clients

\* the singleton securityMonitor with subscribers of every kind
InitReentrant ==
  /\ configs = EmptyMap
  /\ limits = EmptyMap
  /\ events = <<>>
  /\ nextId = 0
  /\ logged = [calls |-> 0, cleared |-> FALSE]
  /\ now = 0
  /\ secureContext = TRUE
  /\ attempts = <<>>
  /\ last = [op |-> "init"]
  /\ hist = EmptyMap
  /\ admitted = EmptyMap
  /\ listeners = <<>>
  /\ subs = <<>>
  /\ violations = <<>>
  /\ handlers = 0
  /\ endpoint = <<>>
  /\ ClientsIdle

NextReentrant ==
  \/ \E cb \in Callbacks \cup ReentrantCallbacks : Subscribe(cb)
  \/ \E n \in 1..Len(subs) : Unsubscribe(n)
  \/ nextId < MaxLogCalls /\ LogEventNested("XSS_ATTEMPT", "HIGH")

SpecReentrant == InitReentrant /\ [][NextReentrant]_vars

\* C27: every subscriber is given the events in the order they were added
\* to the buffer (the order of their ids), also when a subscriber calls
\* logEvent from inside its callback.
C27_InOrder ==
  last.op = "logEventNested" =>
    \A i \in 1..Len(last.trace), j \in 1..Len(last.trace) :
      (i < j /\ last.trace[i].sub = last.trace[j].sub)
        => last.trace[i].id < last.trace[j].id

====
